---- MODULE Spec2Model ----
(***************************************************************************)
(* D6F-PH differential pressure sensor driver (src/d6f_ph.py).             *)
(*                                                                         *)
(* The driver object, the I2C bus it talks to and the caller are modelled  *)
(* as one state machine.  Every public method is one action; the bytes the *)
(* sensor delivers on a block read are the action's inputs.  The bus       *)
(* traffic of the last operation is kept in `log`.                         *)
(*                                                                         *)
(* Python values are tagged records [t |-> type, v |-> value]; Python      *)
(* floats are exact rationals <<n, d>> in lowest terms with d > 0.         *)
(***************************************************************************)
EXTENDS Integers, Sequences, FiniteSets, TLC

VARIABLES
    state,          \* "uninit" | "ready" (instance exists) | "failed" (__init__ raised)
    pressure_range, \* the pressure_range argument __init__ was called with
    _addr,          \* self._addr
    _pres_range,    \* self._pres_range
    _pres_func,     \* self._pres_func (name of the bound method)
    _offset,        \* self._offset
    en_crc,         \* self.en_crc
    _buffer,        \* self._buffer
    log,            \* bus and delay operations issued by the last operation
    stdout,         \* lines printed by the last operation
    call,           \* name of the last operation
    bus_in,         \* bytes the sensor delivered to the last operation
    ret,            \* what the last operation returned or raised
    calls,          \* number of read operations invoked so far
    triggers,       \* number of trigger writes seen on the bus so far
    mismatches      \* number of read operations that hit a checksum mismatch

vars == <<state, pressure_range, _addr, _pres_range, _pres_func, _offset,
          en_crc, _buffer, log, stdout, call, bus_in, ret, calls, triggers,
          mismatches>>

-----------------------------------------------------------------------------
(* Bounds of the model *)

MaxCalls == 2

-----------------------------------------------------------------------------
(* Integer and rational arithmetic *)

Abs(x) == IF x < 0 THEN -x ELSE x

RECURSIVE Gcd(_, _)
Gcd(a, b) == IF b = 0 THEN a ELSE Gcd(b, a % b)

\* a Python float holding n/d exactly
Rat(n, d) ==
    LET s == IF d < 0 THEN -1 ELSE 1
        g == Gcd(Abs(n), Abs(d))
    IN  <<(s * n) \div g, (s * d) \div g>>

RatInt(n) == <<n, 1>>
RatAdd(a, b) == Rat(a[1] * b[2] + b[1] * a[2], a[2] * b[2])
RatSub(a, b) == Rat(a[1] * b[2] - b[1] * a[2], a[2] * b[2])
\* cross-cancelling product, so that intermediate values stay small
RatMul(a, b) ==
    LET x == Rat(a[1], b[2])
        y == Rat(b[1], a[2])
    IN  <<x[1] * y[1], x[2] * y[2]>>
RatDiv(a, b) == RatMul(a, Rat(b[2], b[1]))
RatLeq(a, b) == a[1] * b[2] <= b[1] * a[2]

\* bitwise exclusive or of two naturals (Python ^)
RECURSIVE xor(_, _)
xor(a, b) ==
    IF a = 0 THEN b
    ELSE IF b = 0 THEN a
    ELSE (((a % 2) + (b % 2)) % 2) + (2 * xor(a \div 2, b \div 2))

-----------------------------------------------------------------------------
(* Class constants and wire sequences *)

_I2C_ADDRESS == 108

_PRESSURE_RANGE == [m \in {"0505", "0025", "5050"} |->
                        CASE m = "0505" -> 100
                          [] m = "0025" -> 250
                          [] m = "5050" -> 1000]

EEPROM_CTRL == <<11, 0>>                \* b'\x0b\x00'
CRC_ENABLE  == <<0, 208, 73, 24, 2>>    \* b'\x00\xd0\x49\x18\x02'
TRIGGER     == <<0, 208, 64, 24, 6>>    \* b'\x00\xd0\x40\x18\x06'
SEL_PRES    == <<0, 208, 81, 44>>       \* b'\x00\xd0\x51\x2c'
SEL_TEMP    == <<0, 208, 97, 44>>       \* b'\x00\xd0\x61\x2c'
OUT_REG     == 7
DELAY_MS    == 33
CRC_POLY    == 305
CRC_INIT    == 0

\* bus and delay operations as they appear in the log
writeto(address, data) == [op |-> "writeto", addr |-> address, data |-> data]
sleep_ms(ms) == [op |-> "sleep_ms", ms |-> ms]
readfrom_mem_into(address, reg, buf) ==
    [op |-> "readfrom_mem_into", addr |-> address, reg |-> reg, len |-> Len(buf)]

\* faulty variant: the checksum byte is not fetched again when the payload is unchanged
mem_into_stale(buf, data) ==
    [i \in 1..Len(buf) |->
        IF i = 3 /\ buf[1] = data[1] /\ buf[2] = data[2] THEN buf[3] ELSE data[i]]

\* the buffer after readfrom_mem_into: every byte of buf is overwritten
mem_into(buf, data) == [i \in 1..Len(buf) |-> data[i]]

bytearray(n) == [i \in 1..n |-> 0]

\* int.from_bytes(b, 'big') for a 2-byte slice
from_bytes_big(b) == b[1] * 256 + b[2]

-----------------------------------------------------------------------------
(* Python values *)

None == [t |-> "NoneType"]
PyInt(n) == [t |-> "int", v |-> n]
PyStr(s) == [t |-> "str", v |-> s]
PyFloat(r) == [t |-> "float", v |-> r]
Raise(type, msg) == [t |-> "raise", type |-> type, msg |-> msg]

-----------------------------------------------------------------------------
(* Transfer functions *)

\* faulty variant: wrong zero point of the unidirectional transfer function
_PRESSURE_MODE_P_zero1000(pres_range, output_decimal) ==
    Rat((output_decimal - 1000) * pres_range, 60000)

_PRESSURE_MODE_P(pres_range, output_decimal) ==
    Rat((output_decimal - 1024) * pres_range, 60000)

_PRESSURE_MODE_PN(pres_range, output_decimal) ==
    RatSub(Rat((output_decimal - 1024) * pres_range, 60000), Rat(pres_range, 2))

_temp_celsius(output_decimal) ==
    Rat((output_decimal - 10214) * 100, 3739)

-----------------------------------------------------------------------------
(* Construction helpers *)

\* returns the bound method's name, or the exception raised
_get_pres_func(pres_range) ==
    IF pres_range.t = "int"
    THEN IF pres_range.v = 250 THEN PyStr("_PRESSURE_MODE_P")
         ELSE IF pres_range.v \in {100, 1000} THEN PyStr("_PRESSURE_MODE_PN")
         ELSE Raise("UnboundLocalError",
                    "local variable 'func' referenced before assignment")
    ELSE Raise("Exception", "Error: Incorrect pressure range.")

_get_pres_range(range) ==
    IF range.t = "str"
    THEN IF range.v \in DOMAIN _PRESSURE_RANGE
         THEN PyInt(_PRESSURE_RANGE[range.v])
         ELSE None
    ELSE Raise("Exception", "Error: Incorrect pressure range setting.")

-----------------------------------------------------------------------------
(* Checksum *)

RECURSIVE crc8_bits(_, _, _)
crc8_bits(crc, poly, n) ==
    IF n = 0 THEN crc
    ELSE crc8_bits(IF ((crc \div 128) % 2) = 1 THEN xor(crc * 2, poly) ELSE crc * 2,
                   poly, n - 1)

RECURSIVE crc8_bytes(_, _, _)
crc8_bytes(crc, byte_array, poly) ==
    IF byte_array = <<>> THEN crc
    ELSE crc8_bytes((crc8_bits(xor(crc, Head(byte_array)), poly, 8)) % 256,
                    Tail(byte_array), poly)

crc8(byte_array, poly, init) == xor(crc8_bytes(init, byte_array, poly), 0)

\* raw counts the sensor delivers in this model
PresWords == {1024, 31024, 65535}
TempWords == {10214, 13953}

word_bytes(w) == <<w \div 256, w % 256>>

\* self.crc8(payload) with the default poly and init, tabulated once for the
\* payloads the sensor delivers
crc8_default == [d \in {word_bytes(w) : w \in PresWords \cup TempWords} |->
                    crc8(d, CRC_POLY, CRC_INIT)]

-----------------------------------------------------------------------------
(* The driver object *)

Tuple(a, b) == [t |-> "tuple", v |-> <<a, b>>]

self == [addr |-> _addr, pres_range |-> _pres_range, pres_func |-> _pres_func,
         offset |-> _offset, en_crc |-> en_crc, buffer |-> _buffer]

\* faulty variant: checksum append mode is switched on whatever en_crc says
init_writes_always(address, crc) ==
    <<writeto(address, EEPROM_CTRL), writeto(address, CRC_ENABLE)>>

\* bus writes of __init__ once the pressure range has been accepted
init_writes(address, crc) ==
    <<writeto(address, EEPROM_CTRL)>>
        \o (IF crc THEN <<writeto(address, CRC_ENABLE)>> ELSE <<>>)

\* __init__: the new object's fields and bus traffic, or the exception raised
__init__(address, range, crc, offset) ==
    LET pr   == IF range.t = "str" THEN _get_pres_range(range) ELSE range
        func == IF pr.t = "raise" THEN pr ELSE _get_pres_func(pr)
    IN  IF func.t = "raise"
        THEN [ok |-> FALSE, exc |-> func, log |-> <<>>]
        ELSE [ok |-> TRUE,
              addr |-> address, pres_range |-> pr.v, pres_func |-> func.v,
              offset |-> offset, en_crc |-> crc,
              buffer |-> IF crc THEN bytearray(3) ELSE bytearray(2),
              log |-> init_writes(address, crc)]

\* faulty variant: the conversion delay is skipped
trigger_seq_nodelay(addr) == <<writeto(addr, TRIGGER)>>

\* start of a measurement: trigger write, then the conversion delay
trigger_seq(addr) == <<writeto(addr, TRIGGER), sleep_ms(DELAY_MS)>>

\* faulty variant: the checksum is never compared
crc_mismatch_off(crc_on, buf) == FALSE

\* en_crc and crc8(buffer[:2]) != buffer[2]
crc_mismatch(crc_on, buf) ==
    crc_on /\ crc8_default[SubSeq(buf, 1, 2)] # buf[3]

\* print(self._buffer, hex(crc))
print_crc(buf) == <<[buffer |-> buf, crc |-> crc8_default[SubSeq(buf, 1, 2)]]>>

\* faulty variant: the pressure count is decoded after the temperature block has
\* overwritten the buffer
read_raw_late(s, in) ==
    LET log1 == trigger_seq(s.addr)
                  \o <<writeto(s.addr, SEL_PRES),
                       readfrom_mem_into(s.addr, OUT_REG, s.buffer)>>
        buf1 == mem_into(s.buffer, in.p)
    IN  IF crc_mismatch(s.en_crc, buf1)
        THEN [buffer |-> buf1, log |-> log1, stdout |-> print_crc(buf1), ret |-> None]
        ELSE
          LET raw_pres == from_bytes_big(SubSeq(buf1, 1, 2)) - s.offset
              log2 == log1 \o <<writeto(s.addr, SEL_TEMP),
                                readfrom_mem_into(s.addr, OUT_REG, buf1)>>
              buf2 == mem_into(buf1, in.t)
          IN  IF crc_mismatch(s.en_crc, buf2)
              THEN [buffer |-> buf2, log |-> log2, stdout |-> print_crc(buf2),
                    ret |-> None]
              ELSE [buffer |-> buf2, log |-> log2, stdout |-> <<>>,
                    ret |-> Tuple(PyInt(from_bytes_big(SubSeq(buf2, 1, 2)) - s.offset),
                                  PyInt(from_bytes_big(SubSeq(buf2, 1, 2))))]

\* read_raw: in.p and in.t are the bytes the sensor delivers on the two block reads
read_raw(s, in) ==
    LET log1 == trigger_seq(s.addr)
                  \o <<writeto(s.addr, SEL_PRES),
                       readfrom_mem_into(s.addr, OUT_REG, s.buffer)>>
        buf1 == mem_into(s.buffer, in.p)
    IN  IF crc_mismatch(s.en_crc, buf1)
        THEN [buffer |-> buf1, log |-> log1, stdout |-> print_crc(buf1), ret |-> None]
        ELSE
          LET raw_pres == from_bytes_big(SubSeq(buf1, 1, 2)) - s.offset
              log2 == log1 \o <<writeto(s.addr, SEL_TEMP),
                                readfrom_mem_into(s.addr, OUT_REG, buf1)>>
              buf2 == mem_into(buf1, in.t)
          IN  IF crc_mismatch(s.en_crc, buf2)
              THEN [buffer |-> buf2, log |-> log2, stdout |-> print_crc(buf2),
                    ret |-> None]
              ELSE [buffer |-> buf2, log |-> log2, stdout |-> <<>>,
                    ret |-> Tuple(PyInt(raw_pres),
                                  PyInt(from_bytes_big(SubSeq(buf2, 1, 2))))]

\* Python truth value of what read_raw returns
falsy(x) == x.t = "NoneType" \/ (x.t = "tuple" /\ Len(x.v) = 0)

\* self._pres_func(raw_pres)
call_pres_func(s, raw_pres) ==
    IF s.pres_func = "_PRESSURE_MODE_P"
    THEN _PRESSURE_MODE_P(s.pres_range, raw_pres)
    ELSE _PRESSURE_MODE_PN(s.pres_range, raw_pres)

\* faulty variant: pressure and temperature each come from a measurement of their own
read_twice(s, in) ==
    LET a == read_raw(s, in)
        b == read_raw([s EXCEPT !.buffer = a.buffer], in)
    IN  IF falsy(a.ret) \/ falsy(b.ret)
        THEN [b EXCEPT !.ret = None, !.log = a.log \o b.log]
        ELSE [b EXCEPT !.log = a.log \o b.log,
                       !.ret = Tuple(PyFloat(call_pres_func(s, a.ret.v[1].v)),
                                     PyFloat(_temp_celsius(b.ret.v[2].v)))]

read(s, in) ==
    LET r == read_raw(s, in)
    IN  IF falsy(r.ret) THEN [r EXCEPT !.ret = None]
        ELSE LET raw_pres == r.ret.v[1].v
                 raw_temp == r.ret.v[2].v
                 temp == _temp_celsius(raw_temp)
                 pres == call_pres_func(s, raw_pres)
             IN  [r EXCEPT !.ret = Tuple(PyFloat(pres), PyFloat(temp))]

\* "a, b = x": x itself when it is a tuple, else the TypeError of unpacking None
unpack(x) ==
    IF x.t = "tuple" THEN x
    ELSE Raise("TypeError", "cannot unpack non-iterable NoneType object")

read_pa(s, in) ==
    LET r == read(s, in)
        u == unpack(r.ret)
    IN  [r EXCEPT !.ret = IF u.t = "raise" THEN u ELSE u.v[1]]

\* 6894.75729 as a ratio of integers
PA_PER_PSI == Rat(689475729, 100000)

read_psi(s, in) ==
    LET r == read_pa(s, in)
    IN  IF r.ret.t = "raise" THEN r
        ELSE [r EXCEPT !.ret = PyFloat(RatDiv(r.ret.v, PA_PER_PSI))]

read_hpa(s, in) ==
    LET r == read_pa(s, in)
    IN  IF r.ret.t = "raise" THEN r
        ELSE [r EXCEPT !.ret = PyFloat(RatDiv(r.ret.v, RatInt(100)))]

read_temp_c(s, in) ==
    LET r == read(s, in)
        u == unpack(r.ret)
    IN  [r EXCEPT !.ret = IF u.t = "raise" THEN u ELSE u.v[2]]

read_temp_f(s, in) ==
    LET r == read_temp_c(s, in)
    IN  IF r.ret.t = "raise" THEN r
        ELSE [r EXCEPT !.ret = PyFloat(RatAdd(RatMul(r.ret.v, Rat(18, 10)), RatInt(32)))]

-----------------------------------------------------------------------------
(* Inputs *)

Addresses == {_I2C_ADDRESS, 109}
Offsets == {0, 24}

\* pressure_range arguments: model strings, full-scale integers, and others
RangeArgs ==
    {PyStr("5050"), PyStr("0505"), PyStr("0025"), PyStr("1000"),
     PyInt(100), PyInt(250), PyInt(1000), PyInt(500), PyInt(0), PyInt(-250),
     PyFloat(Rat(250, 1)), None}

\* checksum bytes the sensor may append: the right one and a corrupted one
CrcBytes(d) ==
    LET c == crc8_default[d] IN {c, (c + 1) % 256}

\* what the sensor may deliver on a block read of n bytes
Data(words, n) ==
    IF n = 2 THEN {word_bytes(w) : w \in words}
    ELSE UNION {{word_bytes(w) \o <<c>> : c \in CrcBytes(word_bytes(w))} : w \in words}

BusInputs2 == {[p |-> x, t |-> y] : x \in Data(PresWords, 2), y \in Data(TempWords, 2)}
BusInputs3 == {[p |-> x, t |-> y] : x \in Data(PresWords, 3), y \in Data(TempWords, 3)}
BusInputs(n) == IF n = 2 THEN BusInputs2 ELSE BusInputs3

is_trigger(e) == e.op = "writeto" /\ e.data = TRIGGER

count_triggers(seq) == Cardinality({i \in 1..Len(seq) : is_trigger(seq[i])})

-----------------------------------------------------------------------------
(* State machine *)

NoInstance ==
    /\ _addr = 0 /\ _pres_range = 0 /\ _pres_func = "" /\ _offset = 0
    /\ en_crc = FALSE /\ _buffer = <<>>

Init ==
    /\ state = "uninit"
    /\ pressure_range = None
    /\ NoInstance
    /\ log = <<>> /\ stdout = <<>>
    /\ call = "" /\ bus_in = <<>> /\ ret = None
    /\ calls = 0 /\ triggers = 0 /\ mismatches = 0

\* D6F_PH(i2c, address, pressure_range, en_crc, offset)
Construct ==
    \E address \in Addresses, range \in RangeArgs, crc \in BOOLEAN, offset \in Offsets :
        LET o == __init__(address, range, crc, offset) IN
        /\ state = "uninit"
        /\ pressure_range' = range
        /\ call' = "__init__"
        /\ log' = o.log
        /\ IF o.ok
           THEN /\ state' = "ready"
                /\ _addr' = o.addr /\ _pres_range' = o.pres_range
                /\ _pres_func' = o.pres_func /\ _offset' = o.offset
                /\ en_crc' = o.en_crc /\ _buffer' = o.buffer
                /\ ret' = None
           ELSE /\ state' = "failed"
                /\ ret' = o.exc
                /\ UNCHANGED <<_addr, _pres_range, _pres_func, _offset, en_crc, _buffer>>
        /\ UNCHANGED <<stdout, bus_in, calls, triggers, mismatches>>

\* the effect of one read operation that produced r from the bus input in
Do(name, in, r) ==
    /\ call' = name
    /\ bus_in' = in
    /\ _buffer' = r.buffer
    /\ log' = r.log
    /\ stdout' = r.stdout
    /\ ret' = r.ret
    /\ calls' = calls + 1
    /\ triggers' = triggers + count_triggers(r.log)
    /\ mismatches' = mismatches + (IF r.stdout # <<>> THEN 1 ELSE 0)
    /\ UNCHANGED <<state, pressure_range, _addr, _pres_range, _pres_func, _offset, en_crc>>

CanCall == state = "ready" /\ calls < MaxCalls

ReadRaw   == CanCall /\ \E in \in BusInputs(Len(_buffer)) : Do("read_raw", in, read_raw(self, in))
Read      == CanCall /\ \E in \in BusInputs(Len(_buffer)) : Do("read", in, read(self, in))
ReadPa    == CanCall /\ \E in \in BusInputs(Len(_buffer)) : Do("read_pa", in, read_pa(self, in))
ReadPsi   == CanCall /\ \E in \in BusInputs(Len(_buffer)) : Do("read_psi", in, read_psi(self, in))
ReadHpa   == CanCall /\ \E in \in BusInputs(Len(_buffer)) : Do("read_hpa", in, read_hpa(self, in))
ReadTempC == CanCall /\ \E in \in BusInputs(Len(_buffer)) : Do("read_temp_c", in, read_temp_c(self, in))
ReadTempF == CanCall /\ \E in \in BusInputs(Len(_buffer)) : Do("read_temp_f", in, read_temp_f(self, in))

Next ==
    \/ Construct
    \/ ReadRaw
    \/ Read
    \/ ReadPa
    \/ ReadPsi
    \/ ReadHpa
    \/ ReadTempC
    \/ ReadTempF

Spec == Init /\ [][Next]_vars

-----------------------------------------------------------------------------
(* crc8 on its own: every 1-byte and 2-byte input, default poly and init *)

Byte == 0..255

\* the fields of a driver built by __init__(address, range, crc, offset)
Built(address, range, crc, offset) ==
    LET o == __init__(address, range, crc, offset) IN
    /\ state = "ready" /\ pressure_range = range
    /\ _addr = o.addr /\ _pres_range = o.pres_range /\ _pres_func = o.pres_func
    /\ _offset = o.offset /\ en_crc = o.en_crc /\ _buffer = o.buffer
    /\ log = o.log /\ stdout = <<>> /\ call = "__init__" /\ ret = None
    /\ calls = 0 /\ triggers = 0 /\ mismatches = 0

InitCrc ==
    /\ Built(_I2C_ADDRESS, PyStr("5050"), FALSE, 0)
    /\ bus_in \in {<<a>> : a \in Byte} \cup {<<a, b>> : a \in Byte, b \in Byte}

\* self.crc8(byte_array)
Crc8 ==
    /\ state = "ready" /\ call = "__init__"
    /\ call' = "crc8"
    /\ ret' = PyInt(crc8(bus_in, CRC_POLY, CRC_INIT))
    /\ UNCHANGED <<state, pressure_range, _addr, _pres_range, _pres_func, _offset,
                   en_crc, _buffer, log, stdout, bus_in, calls, triggers, mismatches>>

NextCrc == Crc8

SpecCrc == InitCrc /\ [][NextCrc]_vars

-----------------------------------------------------------------------------
(* read() of a 250 Pa driver with offset 0 over every 16-bit pressure count *)

InitP ==
    /\ Built(_I2C_ADDRESS, PyInt(250), FALSE, 0)
    /\ bus_in \in {[p |-> <<a, b>>, t |-> word_bytes(10214)] : a \in Byte, b \in Byte}

ReadP ==
    /\ state = "ready" /\ call = "__init__"
    /\ Do("read", bus_in, read(self, bus_in))

NextP == ReadP

SpecP == InitP /\ [][NextP]_vars

-----------------------------------------------------------------------------
(* Properties *)

\* the checksum byte of a delivered 3-byte block disagrees with its payload
BadCrc(d) == crc8(SubSeq(d, 1, 2), 305, 0) # d[3]

ConvCalls == {"read_pa", "read_psi", "read_hpa", "read_temp_c", "read_temp_f"}

\* C1: a successful read_raw issues exactly: trigger write, 33 ms delay,
\* pressure select write, block read from 0x07, temperature select write,
\* block read from 0x07; both block reads have length 2 without checksum
\* and 3 with it.
C1_ReadRawSequence ==
    (state = "ready" /\ call = "read_raw" /\ ret.t = "tuple") =>
        LET n == IF en_crc THEN 3 ELSE 2
            blk == [op |-> "readfrom_mem_into", addr |-> _addr, reg |-> 7, len |-> n]
        IN  log = << [op |-> "writeto", addr |-> _addr, data |-> <<0, 208, 64, 24, 6>>],
                     [op |-> "sleep_ms", ms |-> 33],
                     [op |-> "writeto", addr |-> _addr, data |-> <<0, 208, 81, 44>>],
                     blk,
                     [op |-> "writeto", addr |-> _addr, data |-> <<0, 208, 97, 44>>],
                     blk >>

C1_Witness ==
    /\ state = "ready" /\ call = "read_raw" /\ ret.t = "tuple"
    /\ en_crc /\ Len(log) = 6 /\ log[2].op = "sleep_ms"

\* C2: with checksum enabled, read_raw and read return None whenever the
\* pressure block or the temperature block fails its checksum; the trigger is
\* written once only, and after a pressure mismatch nothing more is put on
\* the bus (no temperature select write, no second block read).
C2_MismatchAborts ==
    (state = "ready" /\ call \in {"read_raw", "read"} /\ en_crc
        /\ (BadCrc(bus_in.p) \/ BadCrc(bus_in.t))) =>
        /\ ret = [t |-> "NoneType"]
        /\ Cardinality({i \in 1..Len(log) :
               log[i].op = "writeto" /\ log[i].data = <<0, 208, 64, 24, 6>>}) = 1
        /\ BadCrc(bus_in.p) =>
              /\ Len(log) = 4
              /\ \A i \in 1..Len(log) :
                    ~(log[i].op = "writeto" /\ log[i].data = <<0, 208, 97, 44>>)
              /\ Cardinality({i \in 1..Len(log) : log[i].op = "readfrom_mem_into"}) = 1

C2_Witness ==
    /\ state = "ready" /\ call = "read" /\ en_crc
    /\ BadCrc(bus_in.p) /\ ret = [t |-> "NoneType"] /\ Len(log) = 4

\* C3: on a checksum mismatch none of read_pa, read_psi, read_hpa,
\* read_temp_c, read_temp_f ends in an unhandled error.
C3_NoCrashOnMismatch ==
    (state = "ready" /\ call \in ConvCalls /\ en_crc
        /\ (BadCrc(bus_in.p) \/ BadCrc(bus_in.t))) =>
        ret.t # "raise"

\* the pressure_range arguments that resolve to a supported full scale
ValidRange(r) ==
    \/ r.t = "str" /\ r.v \in {"0505", "0025", "5050"}
    \/ r.t = "int" /\ r.v \in {100, 250, 1000}

\* C4: construction fails with the configuration error, without any bus write
\* and without producing an instance, for every unsupported pressure_range;
\* it succeeds only for a full scale of 100, 250 or 1000, with the
\* unidirectional function for 250 and the bidirectional one otherwise.
C4_ConstructionErrors ==
    /\ state = "failed" =>
          /\ ~ValidRange(pressure_range)
          /\ ret.t = "raise" /\ ret.type = "Exception"
          /\ log = <<>> /\ NoInstance
    /\ state = "ready" =>
          /\ ValidRange(pressure_range)
          /\ _pres_range \in {100, 250, 1000}
          /\ _pres_func = (IF _pres_range = 250 THEN "_PRESSURE_MODE_P"
                                                ELSE "_PRESSURE_MODE_PN")

\* C5: a successful construction writes 0B 00 and, only when checksum is
\* enabled, then 00 D0 49 18 02, both to the configured address, and nothing
\* else goes on the bus; the buffer has 3 bytes with checksum, 2 without.
C5_InitWrites ==
    (state = "ready" /\ call = "__init__") =>
        /\ log = IF en_crc
                 THEN << [op |-> "writeto", addr |-> _addr, data |-> <<11, 0>>],
                         [op |-> "writeto", addr |-> _addr, data |-> <<0, 208, 73, 24, 2>>] >>
                 ELSE << [op |-> "writeto", addr |-> _addr, data |-> <<11, 0>>] >>
        /\ Len(_buffer) = IF en_crc THEN 3 ELSE 2

C5_Witness ==
    /\ state = "ready" /\ call = "__init__" /\ en_crc
    /\ Len(log) = 2 /\ Len(_buffer) = 3 /\ _addr = 109

\* full scale of a named model
ModelFullScale(m) == CASE m = "5050" -> 1000 [] m = "0505" -> 100 [] m = "0025" -> 250

\* C7: without checksum, a driver built from a model string with full scale F
\* and offset N returns from read() the pair
\*   ((p - N - 1024) * F / 60000 [- F/2 unless F = 250], (t - 10214) * 100 / 3739)
\* where p is the big-endian value of the first block read and t that of the
\* second; so N shifts the pressure by -N * F / 60000, and '5050' with
\* p = 1024, t = 10214, N = 0 gives (-500, 0).
C7_ReadValue ==
    (state = "ready" /\ call = "read" /\ ~en_crc /\ pressure_range.t = "str") =>
        LET F  == ModelFullScale(pressure_range.v)
            p  == 256 * bus_in.p[1] + bus_in.p[2]
            t  == 256 * bus_in.t[1] + bus_in.t[2]
            N  == _offset
            mid == IF F = 250 THEN 0 ELSE 30000 * F
            at0 == Rat((p - 1024) * F - mid, 60000)   \* the reading at offset 0
        IN  /\ ret.t = "tuple"
            /\ ret.v[1] = [t |-> "float", v |-> Rat((p - N - 1024) * F - mid, 60000)]
            /\ ret.v[1].v = RatSub(at0, Rat(N * F, 60000))
            /\ ret.v[2] = [t |-> "float", v |-> Rat((t - 10214) * 100, 3739)]
            /\ (F = 1000 /\ p = 1024 /\ t = 10214 /\ N = 0) =>
                   ret.v = << [t |-> "float", v |-> <<-500, 1>>],
                              [t |-> "float", v |-> <<0, 1>>] >>

C7_Witness ==
    /\ state = "ready" /\ call = "read" /\ ~en_crc
    /\ pressure_range = [t |-> "str", v |-> "5050"] /\ _offset = 0
    /\ bus_in = [p |-> <<4, 0>>, t |-> <<39, 230>>]
    /\ ret.t = "tuple" /\ ret.v[1].v = <<-500, 1>> /\ ret.v[2].v = <<0, 1>>

\* C9 as stated: every call of read, read_pa, read_psi, read_hpa, read_temp_c
\* or read_temp_f performs the full sequence (one trigger write, one 33 ms
\* delay, the pressure sub-read and the temperature sub-read), trigger writes
\* equal calls, and its outcome depends on this call's bytes only.
C9_FullSequenceEveryCall ==
    (state = "ready" /\ call \in ConvCalls \cup {"read"}) =>
        /\ Len(log) = 6
        /\ log[1] = [op |-> "writeto", addr |-> _addr, data |-> <<0, 208, 64, 24, 6>>]
        /\ log[2] = [op |-> "sleep_ms", ms |-> 33]
        /\ log[3] = [op |-> "writeto", addr |-> _addr, data |-> <<0, 208, 81, 44>>]
        /\ log[4].op = "readfrom_mem_into"
        /\ log[5] = [op |-> "writeto", addr |-> _addr, data |-> <<0, 208, 97, 44>>]
        /\ log[6].op = "readfrom_mem_into"
        /\ triggers = calls

\* the outcome of the named operation on a driver with the given buffer
Outcome(name, buf, in) ==
    LET s == [self EXCEPT !.buffer = buf]
    IN  CASE name = "read_raw"    -> read_raw(s, in).ret
          [] name = "read"        -> read(s, in).ret
          [] name = "read_pa"     -> read_pa(s, in).ret
          [] name = "read_psi"    -> read_psi(s, in).ret
          [] name = "read_hpa"    -> read_hpa(s, in).ret
          [] name = "read_temp_c" -> read_temp_c(s, in).ret
          [] name = "read_temp_f" -> read_temp_f(s, in).ret

\* C9 (amended): every such call issues exactly one trigger write and one
\* 33 ms delay followed by the pressure sub-read, and the temperature sub-read
\* too unless the pressure sub-read failed its checksum; trigger writes equal
\* calls; the outcome is the one an all-zero buffer would give for this
\* call's bytes, so nothing of an earlier reading enters it.
C9_OneMeasurementPerCall ==
    (state = "ready" /\ call \in ConvCalls \cup {"read"}) =>
        LET presBad == en_crc /\ BadCrc(bus_in.p) IN
        /\ Len(log) = IF presBad THEN 4 ELSE 6
        /\ log[1] = [op |-> "writeto", addr |-> _addr, data |-> <<0, 208, 64, 24, 6>>]
        /\ log[2] = [op |-> "sleep_ms", ms |-> 33]
        /\ log[3] = [op |-> "writeto", addr |-> _addr, data |-> <<0, 208, 81, 44>>]
        /\ log[4].op = "readfrom_mem_into"
        /\ ~presBad =>
              /\ log[5] = [op |-> "writeto", addr |-> _addr, data |-> <<0, 208, 97, 44>>]
              /\ log[6].op = "readfrom_mem_into"
        /\ triggers = calls
        /\ ret = Outcome(call, [i \in 1..Len(_buffer) |-> 0], bus_in)

C9_Witness ==
    /\ state = "ready" /\ call = "read_temp_f" /\ calls = 2 /\ triggers = 2
    /\ ret.t = "float" /\ Len(log) = 6

\* C10: once the driver exists no read_raw or read call, failed or not,
\* changes the address, full scale, transfer function, checksum flag, offset
\* or buffer length; every read_raw starts with the trigger write and returns
\* what a newly constructed driver of the same configuration returns for the
\* same bus bytes.
C10_MismatchLeavesNoTrace ==
    [][ (state = "ready" /\ call' \in {"read_raw", "read"}) =>
          LET fresh == __init__(_addr, pressure_range, en_crc, _offset) IN
          /\ <<_addr, _pres_range, _pres_func, en_crc, _offset>>' =
                <<_addr, _pres_range, _pres_func, en_crc, _offset>>
          /\ <<_addr, _pres_range, _pres_func, en_crc, _offset>>' =
                <<fresh.addr, fresh.pres_range, fresh.pres_func, fresh.en_crc, fresh.offset>>
          /\ Len(_buffer') = Len(fresh.buffer)
          /\ log'[1] = [op |-> "writeto", addr |-> _addr, data |-> <<0, 208, 64, 24, 6>>]
          /\ call' = "read_raw" => ret' = read_raw(fresh, bus_in').ret
          /\ call' = "read" => ret' = read(fresh, bus_in').ret
      ]_vars

C10_Witness ==
    /\ state = "ready" /\ call = "read_raw" /\ mismatches > 0 /\ calls = 2
    /\ ret.t = "tuple" /\ en_crc

\* CRC-8/Dallas-Maxim: reflected, polynomial 0x31 (0x8C reflected), init 0
RECURSIVE maxim_bits(_, _)
maxim_bits(crc, n) ==
    IF n = 0 THEN crc
    ELSE maxim_bits(IF crc % 2 = 1 THEN xor(crc \div 2, 140) ELSE crc \div 2, n - 1)

RECURSIVE maxim_crc8(_, _)
maxim_crc8(crc, byte_array) ==
    IF byte_array = <<>> THEN crc
    ELSE maxim_crc8(maxim_bits(xor(crc, Head(byte_array)), 8), Tail(byte_array))

\* C6: crc8 with the default polynomial and initial value returns the
\* standard CRC-8/Dallas-Maxim checksum (0x5E for the input 0x01) of every
\* 1-byte and 2-byte input, always within 0..255.
C6_Crc8IsMaxim ==
    (state = "ready" /\ call = "crc8") =>
        /\ ret.t = "int" /\ ret.v \in 0..255
        /\ ret.v = maxim_crc8(0, bus_in)
        /\ bus_in = <<1>> => ret.v = 94

\* C8 as stated: with full scale 250 and offset 0, read() gives a pressure in
\* [0, 250] for every 16-bit raw count.
C8_AlwaysWithinRange ==
    (state = "ready" /\ call = "read" /\ _pres_range = 250 /\ _offset = 0) =>
        LET raw == 256 * bus_in.p[1] + bus_in.p[2]
            pa  == ret.v[1].v
        IN  /\ 0 <= pa[1] /\ pa[1] <= 250 * pa[2]
            /\ 0 <= (raw - 1024) * 250 /\ (raw - 1024) * 250 <= 250 * 60000

\* C8 (amended): with full scale 250 and offset 0, read() gives a pressure in
\* [0, 250] exactly for the raw counts 1024..61024; below 1024 the pressure
\* is negative, above 61024 it exceeds 250.
C8_WithinRangeIffValidCount ==
    (state = "ready" /\ call = "read" /\ _pres_range = 250 /\ _offset = 0) =>
        LET raw == 256 * bus_in.p[1] + bus_in.p[2]
            pa  == ret.v[1].v
        IN  /\ (0 <= pa[1] /\ pa[1] <= 250 * pa[2]) <=> raw \in 1024..61024
            /\ raw < 1024 => pa[1] < 0
            /\ raw > 61024 => pa[1] > 250 * pa[2]
            /\ pa[2] > 0

C8_Witness ==
    /\ state = "ready" /\ call = "read" /\ _pres_range = 250 /\ _offset = 0
    /\ bus_in.p = <<238, 96>> /\ ret.v[1].v = <<250, 1>>

====
